---- MODULE Spec2Model ----
(***************************************************************************)
(* A model of chat-history.py: one run of scan_directory over a directory  *)
(* tree holding SQLite files, the extraction of conversation and prompt    *)
(* records from their tables and the Markdown document the run appends to. *)
(*                                                                         *)
(* Strings the program trims are sequences of one-character strings; a     *)
(* JSON value is a record tagged by its Python type; a stored row value    *)
(* is its encoding, whether it decodes and parses, and the JSON it holds.  *)
(***************************************************************************)
EXTENDS Integers, Sequences, FiniteSets, TLC

\* Bounds of the model: database files under the root, tables and rows read
\* in one run (budgets over the whole run, so every split of them among the
\* files and tables is explored).
MaxFiles == 2
MaxTables == 2
MaxRows == 2

\* LIMIT 1000 of the two SELECT statements.
RowLimit == 1000

VARIABLES
  rootExists,     \* base_path.exists()
  fs,             \* file names under the root -> how many files carry the name
  outputDir,      \* "absent", "preexisting" or "created" (by this run)
  outputFile,     \* "absent" or "created": the run's Markdown document
  doc,            \* the lines of the Markdown document
  pc,             \* position of the run in scan_directory / scan_database
  db_files,       \* the list the two rglob passes produced
  idx,            \* index in db_files of the file being processed
  openConns,      \* indices of db files whose sqlite3 connection is open
  tablesLeft,     \* tables of the current file still to be read
  rows,           \* the rows the last SELECT of the current file fetched
  conversations,  \* scan_database's accumulator
  prompts,        \* scan_database's accumulator
  log,            \* what scan_directory and scan_database printed
  calls,          \* one record per save_to_markdown call: arguments, lines written
  tablesRead,     \* tables listed so far in the run (budget MaxTables)
  rowsRead        \* rows fetched so far in the run (budget MaxRows)

vars == <<rootExists, fs, outputDir, outputFile, doc, pc, db_files, idx, openConns,
          tablesLeft, rows, conversations, prompts, log, calls, tablesRead, rowsRead>>

-----------------------------------------------------------------------------
(* Strings and JSON values *)

\* str.strip() with no argument removes leading and trailing whitespace.
Whitespace == {" ", "\t", "\n"}

RECURSIVE lstrip(_)
lstrip(s) == IF s # <<>> /\ Head(s) \in Whitespace THEN lstrip(Tail(s)) ELSE s

RECURSIVE rstrip(_)
rstrip(s) ==
  IF s # <<>> /\ s[Len(s)] \in Whitespace THEN rstrip(SubSeq(s, 1, Len(s) - 1)) ELSE s

strip(s) == rstrip(lstrip(s))

\* JSON values as json.loads returns them.
JNull == [t |-> "null"]
JNum(n) == [t |-> "num", n |-> n]
JStr(s) == [t |-> "str", s |-> s]
JList(items) == [t |-> "list", items |-> items]
JDict(d) == [t |-> "dict", d |-> d]
EmptyDict == [k \in {} |-> JNull]

\* Stored row values.  enc: the SQLite storage class ("bytes" for a BLOB,
\* "text" for TEXT); empty: the value is falsy ('' / b'' / NULL); utf8: the
\* bytes decode as UTF-8; wf: the text is well-formed JSON; json: what it
\* parses to.
Text(j) == [enc |-> "text", empty |-> FALSE, utf8 |-> TRUE, wf |-> TRUE, json |-> j]
Blob(j) == [enc |-> "bytes", empty |-> FALSE, utf8 |-> TRUE, wf |-> TRUE, json |-> j]
BadUtf8 == [enc |-> "bytes", empty |-> FALSE, utf8 |-> FALSE, wf |-> FALSE, json |-> JNull]
BadJson == [enc |-> "text", empty |-> FALSE, utf8 |-> TRUE, wf |-> FALSE, json |-> JNull]
EmptyValue == [enc |-> "text", empty |-> TRUE, utf8 |-> TRUE, wf |-> FALSE, json |-> JNull]

-----------------------------------------------------------------------------
(* The row values the model reads from tables *)

Msg(type, text) == JDict([type |-> JNum(type), text |-> JStr(text)])

\* {"conversation":[{"type":1,"text":" hi "},{"type":2,"text":"yo"},{},
\*                  {"type":"1","text":"\ta b\n"},{"type":1}]}, stored as a BLOB
ConvGood ==
  Blob(JDict([conversation |-> JList(<<
      Msg(1, <<" ", "h", "i", " ">>),
      Msg(2, <<"y", "o">>),
      JDict(EmptyDict),
      JDict([type |-> JStr(<<"1">>), text |-> JStr(<<"\t", "a", " ", "b", "\n">>)]),
      JDict([type |-> JNum(1)]) >>)]))

\* {"conversation": 5}
ConvNotSeq == Text(JDict([conversation |-> JNum(5)]))

\* {"conversation":[{"type":1,"text":"ok"}, 7]}
ConvBadItem == Text(JDict([conversation |-> JList(<<Msg(1, <<"o", "k">>), JNum(7)>>)]))

\* [{"textDescription":" do X "}, 3, {"other":1}, {"textDescription":"y"}]
PromptList ==
  Text(JList(<< JDict([textDescription |-> JStr(<<" ", "d", "o", " ", "X", " ">>)]),
                JNum(3),
                JDict([other |-> JNum(1)]),
                JDict([textDescription |-> JStr(<<"y">>)]) >>))

\* {"textDescription":" do X "}
PromptDict == Text(JDict([textDescription |-> JStr(<<" ", "d", "o", " ", "X", " ">>)]))

\* {"textDescription": 5}
PromptNotStr == Text(JDict([textDescription |-> JNum(5)]))

\* [3, {"other":1}]: a list with no matching element
ListNoMatch == Blob(JList(<<JNum(3), JDict([other |-> JNum(1)])>>))

RowValues ==
  { BadUtf8, BadJson, EmptyValue, ConvGood, ConvNotSeq, ConvBadItem,
    PromptList, PromptDict, PromptNotStr, ListNoMatch }

-----------------------------------------------------------------------------
(* extract_conversations and extract_prompts *)

\* value.decode('utf-8') of a BLOB, then json.loads(value) if value else None.
\* raised: the decode or the parse raised.
Parse(value) ==
  IF value.enc = "bytes" /\ ~value.utf8 THEN [raised |-> TRUE, parsed |-> JNull]
  ELSE IF value.empty THEN [raised |-> FALSE, parsed |-> JNull]
  ELSE IF ~value.wf THEN [raised |-> TRUE, parsed |-> JNull]
  ELSE [raised |-> FALSE, parsed |-> value.json]

\* isinstance(parsed, dict) and name in parsed
HasField(parsed, name) == parsed.t = "dict" /\ name \in DOMAIN parsed.d

\* The body of extract_conversations' loop for one row: the records it appends.
ConversationsOfRow(row) ==
  LET p == Parse(row.value) IN
  IF ~p.raised /\ HasField(p.parsed, "conversation")
  THEN << [key |-> row.key, conversation |-> p.parsed.d.conversation] >>
  ELSE << >>

\* Variant of PromptsOfItems that leaves the loop at the first match; C6 must
\* tell it from the code.
RECURSIVE PromptsOfItemsBreak(_)
PromptsOfItemsBreak(items) ==
  IF items = << >> THEN << >>
  ELSE IF HasField(Head(items), "textDescription")
       THEN << Head(items).d.textDescription >>
       ELSE PromptsOfItemsBreak(Tail(items))

\* The inner loop of extract_prompts over the items of a parsed list.
RECURSIVE PromptsOfItems(_)
PromptsOfItems(items) ==
  IF items = << >> THEN << >>
  ELSE (IF HasField(Head(items), "textDescription")
        THEN << Head(items).d.textDescription >> ELSE << >>)
       \o PromptsOfItems(Tail(items))

\* The body of extract_prompts' loop for one row: the prompts it appends.
PromptsOfRow(row) ==
  LET p == Parse(row.value) IN
  IF p.raised THEN << >>
  ELSE IF p.parsed.t = "list" THEN PromptsOfItems(p.parsed.items)
  ELSE IF HasField(p.parsed, "textDescription") THEN << p.parsed.d.textDescription >>
  ELSE << >>

\* The rows a SELECT ... LIMIT 1000 returns.
Fetched(r) == SubSeq(r, 1, IF Len(r) < RowLimit THEN Len(r) ELSE RowLimit)

\* Variant of ConversationsOfRows with the try around the loop instead of
\* inside it: the first row that raises ends the pass.  C7 must tell it from
\* the code.
RECURSIVE ConversationsOfRowsOuterTry(_)
ConversationsOfRowsOuterTry(r) ==
  IF r = << >> \/ Parse(Head(r).value).raised THEN << >>
  ELSE ConversationsOfRow(Head(r)) \o ConversationsOfRowsOuterTry(Tail(r))

RECURSIVE ConversationsOfRows(_)
ConversationsOfRows(r) ==
  IF r = << >> THEN << >> ELSE ConversationsOfRow(Head(r)) \o ConversationsOfRows(Tail(r))

RECURSIVE PromptsOfRows(_)
PromptsOfRows(r) ==
  IF r = << >> THEN << >> ELSE PromptsOfRow(Head(r)) \o PromptsOfRows(Tail(r))

\* extract_conversations(cursor, table_name): queryOk is whether the SELECT ran.
extract_conversations(queryOk, r) == IF queryOk THEN ConversationsOfRows(Fetched(r)) ELSE << >>

\* extract_prompts(cursor, table_name)
extract_prompts(queryOk, r) == IF queryOk THEN PromptsOfRows(Fetched(r)) ELSE << >>

-----------------------------------------------------------------------------
(* save_to_markdown *)

\* One f.write call.  kind: which write; n: the row key of a "## Key" line or
\* the number of a prompt line; s: the sender of a message line; text: the
\* text of a message or prompt line.
Line(kind, n, s, text) == [kind |-> kind, n |-> n, s |-> s, text |-> text]
ConversationsHeader == Line("conversations", 0, "", << >>)   \* "# Conversations\n"
KeyLine(key) == Line("key", key, "", << >>)                  \* "## Key: <key>\n"
MessageLine(sender, text) == Line("message", 0, sender, text) \* "**<sender>**: <text>\n"
Separator == Line("separator", 0, "", << >>)                 \* "\n---\n"
NoConversations == Line("marker", 0, "", << >>)              \* "# No conversations found.\n"
PromptsHeader == Line("prompts", 0, "", << >>)               \* "\n# Prompts\n"
PromptLine(i, text) == Line("prompt", i, "", text)           \* "<i>. <prompt>\n"

RECURSIVE SetToSeq(_)
SetToSeq(S) == IF S = {} THEN << >> ELSE LET x == CHOOSE y \in S : TRUE
                                         IN << x >> \o SetToSeq(S \ {x})

\* for message in conv['conversation']: what Python iterates over.  A list
\* gives its items, a dict its keys, a string its characters; anything else
\* is not iterable (TypeError).
Iterate(v) ==
  IF v.t = "list" THEN [raised |-> FALSE, items |-> v.items]
  ELSE IF v.t = "dict"
    THEN [raised |-> FALSE,
          items |-> LET ks == SetToSeq(DOMAIN v.d) IN [i \in 1..Len(ks) |-> JStr(<< ks[i] >>)]]
  ELSE IF v.t = "str"
    THEN [raised |-> FALSE, items |-> [i \in 1..Len(v.s) |-> JStr(<< v.s[i] >>)]]
  ELSE [raised |-> TRUE, items |-> << >>]

\* Variant of Sender that tests the type for truth instead of comparing it
\* with 1; C5 must tell it from the code.
SenderTruthy(d) ==
  IF "type" \in DOMAIN d /\ d.type.t = "num" /\ d.type.n # 0 THEN "User" ELSE "Assistant"

\* "User" if message.get('type') == 1 else "Assistant"
Sender(d) ==
  IF "type" \in DOMAIN d /\ d.type.t = "num" /\ d.type.n = 1 THEN "User" ELSE "Assistant"

\* The body of the message loop: message.get needs a dict, .strip() a str
\* (AttributeError otherwise); the line is written only after both succeed.
RenderMessage(message) ==
  IF message.t # "dict" THEN [raised |-> TRUE, lines |-> << >>]
  ELSE LET text == IF "text" \in DOMAIN message.d THEN message.d.text ELSE JStr(<< >>) IN
       IF text.t # "str" THEN [raised |-> TRUE, lines |-> << >>]
       ELSE [raised |-> FALSE,
             lines |-> << MessageLine(Sender(message.d), strip(text.s)) >>]

\* The message loop, stopping at the first message that raises.
RECURSIVE RenderMessages(_)
RenderMessages(items) ==
  IF items = << >> THEN [raised |-> FALSE, lines |-> << >>]
  ELSE LET m == RenderMessage(Head(items)) IN
       IF m.raised THEN m
       ELSE LET rest == RenderMessages(Tail(items)) IN
            [raised |-> rest.raised, lines |-> m.lines \o rest.lines]

\* The body of the conversation loop: key line, messages, separator.
RenderConversation(conv) ==
  LET it == Iterate(conv.conversation) IN
  IF it.raised THEN [raised |-> TRUE, lines |-> << KeyLine(conv.key) >>]
  ELSE LET ms == RenderMessages(it.items) IN
       IF ms.raised THEN [raised |-> TRUE, lines |-> << KeyLine(conv.key) >> \o ms.lines]
       ELSE [raised |-> FALSE, lines |-> << KeyLine(conv.key) >> \o ms.lines \o << Separator >>]

RECURSIVE RenderConversations(_)
RenderConversations(convs) ==
  IF convs = << >> THEN [raised |-> FALSE, lines |-> << >>]
  ELSE LET c == RenderConversation(Head(convs)) IN
       IF c.raised THEN c
       ELSE LET rest == RenderConversations(Tail(convs)) IN
            [raised |-> rest.raised, lines |-> c.lines \o rest.lines]

\* The prompt loop from number i on: prompt.strip() needs a str.
RECURSIVE RenderPrompts(_, _)
RenderPrompts(ps, i) ==
  IF ps = << >> THEN [raised |-> FALSE, lines |-> << >>]
  ELSE IF Head(ps).t # "str" THEN [raised |-> TRUE, lines |-> << >>]
  ELSE LET rest == RenderPrompts(Tail(ps), i + 1) IN
       [raised |-> rest.raised, lines |-> << PromptLine(i, strip(Head(ps).s)) >> \o rest.lines]

\* Variant of ConversationsSection without the else: the marker follows the
\* conversations too.  C8 must tell it from the code.
ConversationsSectionNoElse(convs) ==
  LET r == RenderConversations(convs) IN
  [raised |-> r.raised,
   lines |-> (IF convs # << >> THEN << ConversationsHeader >> \o r.lines ELSE << >>)
             \o (IF r.raised THEN << >> ELSE << NoConversations >>)]

\* if conversations: ... else: the marker
ConversationsSection(convs) ==
  IF convs # << >>
  THEN LET r == RenderConversations(convs) IN
       [raised |-> r.raised, lines |-> << ConversationsHeader >> \o r.lines]
  ELSE [raised |-> FALSE, lines |-> << NoConversations >>]

\* if prompts: ...
PromptsSection(ps) ==
  IF ps # << >>
  THEN LET r == RenderPrompts(ps, 1) IN
       [raised |-> r.raised, lines |-> << PromptsHeader >> \o r.lines]
  ELSE [raised |-> FALSE, lines |-> << >>]

\* save_to_markdown(output_file, conversations, prompts): the lines it writes
\* before it returns or an exception leaves it (the with block closes the
\* file, so what was written stays).
save_to_markdown(convs, ps) ==
  LET c == ConversationsSection(convs) IN
  IF c.raised THEN c
  ELSE LET p == PromptsSection(ps) IN
       [raised |-> p.raised, lines |-> c.lines \o p.lines]

\* Variant of AppendTo for mode 'w': the file is truncated on open.  C4 must
\* tell it from the code.
AppendToTruncating(old, lines) == lines

\* open(output_file, 'a'): what the document holds after the lines are written.
AppendTo(old, lines) == old \o lines

-----------------------------------------------------------------------------
(* scan_directory and scan_database *)

PrimaryName == "state.vscdb"
BackupName == "state.vscdb.backup"
OtherName == "state.vscdb.bak"
FileNames == {PrimaryName, BackupName, OtherName}

\* base_path.rglob(name): the files under the root named exactly name.
rglob(name) == [i \in 1..fs[name] |-> [name |-> name, n |-> i]]

\* Variant of Locator that matches the pattern state.vscdb* instead of the two
\* names; C1 must tell it from the code.
LocatorByPrefix == rglob(PrimaryName) \o rglob(BackupName) \o rglob(OtherName)

\* list(rglob("state.vscdb")) + list(rglob("state.vscdb.backup"))
Locator == rglob(PrimaryName) \o rglob(BackupName)

Printed(msg, n) == [msg |-> msg, n |-> n]

\* The connection scan_database still uses: conn is a live local of its frame.
InUse(c) == c = idx /\ pc \in {"tables", "extract", "close"}

Init ==
  /\ rootExists \in BOOLEAN
  /\ fs \in [FileNames -> 0..MaxFiles]
  /\ fs[PrimaryName] + fs[BackupName] + fs[OtherName] <= MaxFiles
  /\ ~rootExists => \A f \in FileNames : fs[f] = 0
  /\ outputDir \in {"absent", "preexisting"}
  \* Nothing after line 135 reads the output directory: a directory that was
  \* there before the run is explored for the runs that end before the loop.
  /\ outputDir = "preexisting" => fs[PrimaryName] + fs[BackupName] = 0
  /\ outputFile = "absent"
  /\ doc = << >>
  /\ pc = "start"
  /\ db_files = << >>
  /\ idx = 0
  /\ openConns = {}
  /\ tablesLeft = 0
  /\ rows = << >>
  /\ conversations = << >>
  /\ prompts = << >>
  /\ log = << >>
  /\ calls = << >>
  /\ tablesRead = 0
  /\ rowsRead = 0

\* Lines 126-131: print the directory, return when it does not exist.
CheckRoot ==
  /\ pc = "start"
  /\ IF ~rootExists
     THEN /\ log' = log \o << Printed("Scanning directory", 0),
                              Printed("Directory does not exist", 0) >>
          /\ pc' = "done"
     ELSE /\ log' = Append(log, Printed("Scanning directory", 0))
          /\ pc' = "prepare"
  /\ UNCHANGED <<rootExists, fs, outputDir, outputFile, doc, db_files, idx, openConns,
                 tablesLeft, rows, conversations, prompts, calls, tablesRead, rowsRead>>

\* Lines 134-136: output_dir.mkdir(exist_ok=True) and the document's name.
PrepareOutput ==
  /\ pc = "prepare"
  /\ outputDir' = IF outputDir = "absent" THEN "created" ELSE outputDir
  /\ pc' = "locate"
  /\ UNCHANGED <<rootExists, fs, outputFile, doc, db_files, idx, openConns, tablesLeft,
                 rows, conversations, prompts, log, calls, tablesRead, rowsRead>>

\* Lines 138-144: the two rglob passes; return when nothing matched, else
\* enter the loop at the first file.
Locate ==
  /\ pc = "locate"
  /\ db_files' = Locator
  /\ IF Locator = << >>
     THEN /\ log' = Append(log, Printed("No database files found.", 0))
          /\ pc' = "done"
          /\ idx' = idx
     ELSE /\ log' = Append(log, Printed("Found database files", Len(Locator)))
          /\ pc' = "connect"
          /\ idx' = 1
  /\ UNCHANGED <<rootExists, fs, outputDir, outputFile, doc, openConns, tablesLeft, rows,
                 conversations, prompts, calls, tablesRead, rowsRead>>

\* Lines 76-82 and 95-98: scan_database starts with empty accumulators and
\* connects; when connect raises, the handler prints and the function returns.
Connect ==
  /\ pc = "connect"
  /\ conversations' = << >>
  /\ prompts' = << >>
  /\ \/ /\ openConns' = openConns \cup {idx}
        /\ log' = Append(log, Printed("Scanning database", idx))
        /\ pc' = "tables"
     \/ /\ openConns' = openConns
        /\ log' = log \o << Printed("Scanning database", idx),
                            Printed("Error scanning database", idx) >>
        /\ pc' = "render"
  /\ UNCHANGED <<rootExists, fs, outputDir, outputFile, doc, db_files, idx, tablesLeft,
                 rows, calls, tablesRead, rowsRead>>

\* Lines 85-86 and 95-98: list the tables; when the query raises, the handler
\* prints and the function returns, conn.close() (line 94) not having run.
ListTables ==
  /\ pc = "tables"
  /\ \/ \E n \in 0..(MaxTables - tablesRead) :
          /\ tablesLeft' = n
          /\ tablesRead' = tablesRead + n
          /\ pc' = IF n = 0 THEN "close" ELSE "extract"
          /\ log' = log
     \/ /\ log' = Append(log, Printed("Error scanning database", idx))
        /\ pc' = "render"
        /\ UNCHANGED <<tablesLeft, tablesRead>>
  /\ UNCHANGED <<rootExists, fs, outputDir, outputFile, doc, db_files, idx, openConns,
                 rows, conversations, prompts, calls, rowsRead>>

\* Lines 88-92 with 11-70: one iteration of the table loop, both passes over
\* the table.  A SELECT that raises is caught inside each extract function.
ExtractTable ==
  /\ pc = "extract"
  /\ \E queryOk \in BOOLEAN :
     \E n \in 0..(IF queryOk THEN MaxRows - rowsRead ELSE 0) :
     \E vals \in [1..n -> RowValues] :
       LET table == [i \in 1..n |-> [key |-> rowsRead + i, value |-> vals[i]]] IN
       /\ rows' = Fetched(table)
       /\ rowsRead' = rowsRead + n
       /\ conversations' = conversations \o extract_conversations(queryOk, table)
       /\ prompts' = prompts \o extract_prompts(queryOk, table)
  /\ tablesLeft' = tablesLeft - 1
  /\ pc' = IF tablesLeft = 1 THEN "close" ELSE "extract"
  /\ UNCHANGED <<rootExists, fs, outputDir, outputFile, doc, db_files, idx, openConns,
                 log, calls, tablesRead>>

\* Line 94: conn.close(), then scan_database returns.
CloseConn ==
  /\ pc = "close"
  /\ openConns' = openConns \ {idx}
  /\ rows' = << >>
  /\ pc' = "render"
  /\ UNCHANGED <<rootExists, fs, outputDir, outputFile, doc, db_files, idx, tablesLeft,
                 conversations, prompts, log, calls, tablesRead, rowsRead>>

\* Lines 146 with 100-120, and 144: append the file's section; an exception
\* in save_to_markdown is caught nowhere and ends the run; otherwise the loop
\* goes to the next file or ends.
SaveToMarkdown ==
  /\ pc = "render"
  /\ LET r == save_to_markdown(conversations, prompts) IN
     /\ outputFile' = "created"
     /\ doc' = AppendTo(doc, r.lines)
     /\ calls' = Append(calls, [db |-> idx, conversations |-> conversations,
                                prompts |-> prompts, from |-> Len(doc) + 1,
                                lines |-> r.lines, raised |-> r.raised])
     /\ IF r.raised THEN pc' = "aborted" /\ idx' = idx
        ELSE IF idx < Len(db_files) THEN pc' = "connect" /\ idx' = idx + 1
        ELSE pc' = "finish" /\ idx' = idx
  /\ UNCHANGED <<rootExists, fs, outputDir, db_files, openConns, tablesLeft, rows,
                 conversations, prompts, log, tablesRead, rowsRead>>

\* Line 148: the completion report.
Finish ==
  /\ pc = "finish"
  /\ log' = Append(log, Printed("Data extraction completed", 0))
  /\ pc' = "done"
  /\ UNCHANGED <<rootExists, fs, outputDir, outputFile, doc, db_files, idx, openConns,
                 tablesLeft, rows, conversations, prompts, calls, tablesRead, rowsRead>>

\* A connection scan_database left open (lines 95-98 skip line 94) is closed
\* only when the interpreter finalizes the unreferenced object, which the
\* language does not tie to any point of the run.
Finalize ==
  /\ pc \notin {"done", "aborted"}
  /\ \E c \in openConns :
       /\ ~InUse(c)
       /\ openConns' = openConns \ {c}
  /\ UNCHANGED <<rootExists, fs, outputDir, outputFile, doc, pc, db_files, idx, tablesLeft,
                 rows, conversations, prompts, log, calls, tablesRead, rowsRead>>

Next ==
  \/ CheckRoot
  \/ PrepareOutput
  \/ Locate
  \/ Connect
  \/ ListTables
  \/ ExtractTable
  \/ CloseConn
  \/ SaveToMarkdown
  \/ Finish
  \/ Finalize

Spec == Init /\ [][Next]_vars

-----------------------------------------------------------------------------
(* Vocabulary of the properties *)

InLog(msg, n) == \E k \in 1..Len(log) : log[k] = Printed(msg, n)
NoMatches == fs[PrimaryName] + fs[BackupName] = 0
Scanning == pc \in {"connect", "tables", "extract", "close", "render"}
JustExtracted == pc \in {"extract", "close"} /\ rows # << >>

\* The stored value cannot be decoded or cannot be parsed.
Malformed(row) ==
  \/ row.value.enc = "bytes" /\ ~row.value.utf8
  \/ ~row.value.empty /\ ~row.value.wf
Parsable(row) == ~Malformed(row)
NonEmptyJson(row) == Parsable(row) /\ ~row.value.empty

\* The parsed JSON is a mapping with key "conversation".
HasConversation(row) ==
  /\ NonEmptyJson(row)
  /\ row.value.json.t = "dict"
  /\ "conversation" \in DOMAIN row.value.json.d

\* A mapping whose text, when present, is a string.
MessageMapping(m) == m.t = "dict" /\ ("text" \in DOMAIN m.d => m.d.text.t = "str")

\* An array of message mappings.
MessageArray(v) == v.t = "list" /\ \A k \in 1..Len(v.items) : MessageMapping(v.items[k])

\* t is s without its leading and trailing whitespace.
IsStripOf(t, s) ==
  \E a \in 0..Len(s) : \E b \in 0..(Len(s) - a) :
    /\ t = SubSeq(s, a + 1, Len(s) - b)
    /\ \A i \in 1..a : s[i] \in Whitespace
    /\ \A i \in (Len(s) - b + 1)..Len(s) : s[i] \in Whitespace
    /\ t # << >> => (t[1] \notin Whitespace /\ t[Len(t)] \notin Whitespace)

\* The rows of r that have the conversation shape, as records, in row order.
ConversationRecords(r) ==
  LET sel == SelectSeq(r, HasConversation) IN
  [k \in 1..Len(sel) |-> [key |-> sel[k].key, conversation |-> sel[k].value.json.d.conversation]]

\* Element e of row i's parsed array is a mapping with key textDescription
\* (e = 0: the parsed value itself is such a mapping).
IsPromptAt(r, i, e) ==
  /\ NonEmptyJson(r[i])
  /\ LET j == r[i].value.json IN
     IF e = 0 THEN j.t = "dict" /\ "textDescription" \in DOMAIN j.d
     ELSE /\ j.t = "list"
          /\ e <= Len(j.items)
          /\ j.items[e].t = "dict"
          /\ "textDescription" \in DOMAIN j.items[e].d

ItemCount(row) == IF row.value.json.t = "list" THEN Len(row.value.json.items) ELSE 0

PromptPlaces(r) ==
  UNION { { <<i, e>> : e \in { x \in 0..ItemCount(r[i]) : IsPromptAt(r, i, x) } } : i \in 1..Len(r) }

PlaceBefore(o1, o2) == o1[1] < o2[1] \/ (o1[1] = o2[1] /\ o1[2] < o2[2])

PromptAt(r, o) ==
  IF o[2] = 0 THEN r[o[1]].value.json.d.textDescription
  ELSE r[o[1]].value.json.items[o[2]].d.textDescription

\* The textDescription values of r, by row and then by position in the array.
PromptRecords(r) ==
  LET places == PromptPlaces(r) IN
  [k \in 1..Cardinality(places) |->
     PromptAt(r, CHOOSE o \in places :
                   Cardinality({ o2 \in places : PlaceBefore(o2, o) }) = k - 1)]

\* A step of the table loop: both extract functions ran on one table.
TableRead == pc = "extract" /\ tablesLeft' = tablesLeft - 1

KindCount(lines, kind) == Cardinality({ k \in 1..Len(lines) : lines[k].kind = kind })

-----------------------------------------------------------------------------
(* Properties *)

\* C1: a run whose root directory is missing, or holds no file named
\* state.vscdb or state.vscdb.backup, reports the condition and ends without
\* scanning a database and without creating or appending to the document.
C1_FatalRunsWriteNothing ==
  (~rootExists \/ NoMatches) =>
    /\ pc \in {"start", "prepare", "locate", "done"}
    /\ outputFile = "absent" /\ doc = << >> /\ calls = << >>
    /\ openConns = {} /\ tablesRead = 0 /\ rowsRead = 0
    /\ \A k \in 1..Len(log) : log[k].msg \notin {"Scanning database", "Data extraction completed"}
    /\ pc = "done" =>
         IF rootExists THEN InLog("No database files found.", 0)
         ELSE InLog("Directory does not exist", 0)

\* A run over an existing root that holds only a file of another name has ended.
C1_Witness == pc = "done" /\ rootExists /\ NoMatches /\ fs[OtherName] > 0

\* C2: once a database file could not be opened or listed, the run does not
\* abort, and when it has ended every file discovered after that one has been
\* scanned and rendered and the completion report has been printed.
C2_FileFailureNeverEndsTheRun ==
  \A i \in 1..Len(db_files) : InLog("Error scanning database", i) =>
    /\ pc # "aborted"
    /\ pc = "done" =>
         /\ Len(calls) = Len(db_files)
         /\ \A j \in (i + 1)..Len(db_files) : InLog("Scanning database", j)
         /\ InLog("Data extraction completed", 0)

\* C3: no stored row value, however malformed, aborts the run.
C3_NoRowAbortsTheRun == pc # "aborted" /\ \A k \in 1..Len(calls) : ~calls[k].raised

\* C4: the database files are the state.vscdb matches followed by the
\* state.vscdb.backup matches; the section of file i is appended after file i
\* is scanned and before file i+1 is opened; the sections lie in the document
\* in that order, and what a render wrote stays where it was written.
C4_AppendOnlyInDiscoveryOrder ==
  /\ \A i \in 1..Len(db_files) : \A j \in 1..Len(db_files) :
       (i < j) => ~(db_files[i].name = BackupName /\ db_files[j].name = PrimaryName)
  /\ \A k \in 1..Len(calls) : calls[k].db = k
  /\ Scanning => Len(calls) = idx - 1
  /\ \A k \in 1..Len(calls) :
       /\ calls[k].from = (IF k = 1 THEN 1 ELSE calls[k - 1].from + Len(calls[k - 1].lines))
       /\ Len(doc) >= calls[k].from + Len(calls[k].lines) - 1
       /\ SubSeq(doc, calls[k].from, calls[k].from + Len(calls[k].lines) - 1) = calls[k].lines
  /\ Len(doc) = (IF calls = << >> THEN 0
                 ELSE calls[Len(calls)].from + Len(calls[Len(calls)].lines) - 1)

\* A finished run over a state.vscdb and a state.vscdb.backup, both with records.
C4_Witness ==
  /\ pc = "done" /\ Len(calls) = 2
  /\ db_files[1].name = PrimaryName /\ db_files[2].name = BackupName
  /\ Len(calls[1].lines) > 1 /\ Len(calls[2].lines) > 1

C6_PromptsCountedInOrder ==
  [][TableRead => prompts' = prompts \o PromptRecords(rows')]_vars

\* A table with an array of two matching and two other elements and a
\* mapping with textDescription has been read.
C6_Witness ==
  /\ JustExtracted
  /\ \E i \in 1..Len(rows) : rows[i].value = PromptList
  /\ \E i \in 1..Len(rows) : rows[i].value = PromptDict
  /\ Len(prompts) >= 3

\* C7: reading a table with rows that do not decode or parse raises nothing
\* out of the two extract functions; those rows add no record, and the result
\* is that of the other rows alone, in row order.
C7_MalformedRowsSkipped ==
  [][TableRead =>
       /\ pc' \in {"extract", "close"}
       /\ \A i \in 1..Len(rows') : Malformed(rows'[i]) =>
            \A j \in 1..Len(conversations') : conversations'[j].key # rows'[i].key
       /\ conversations' = conversations \o ConversationRecords(SelectSeq(rows', Parsable))
       /\ prompts' = prompts \o PromptRecords(SelectSeq(rows', Parsable))
       /\ Len(conversations') - Len(conversations)
            = Cardinality({ i \in 1..Len(rows') : HasConversation(rows'[i]) })]_vars

\* A table whose first row is malformed and whose second row gave a record.
C7_Witness ==
  /\ JustExtracted /\ Len(rows) >= 2
  /\ Malformed(rows[1])
  /\ \/ HasConversation(rows[2]) /\ conversations # << >>
        /\ conversations[Len(conversations)].key = rows[2].key
     \/ rows[2].value = PromptDict /\ prompts # << >>

\* C8: a render with no conversation record writes the marker once and no
\* conversation header, key, message or separator line; a render with a record
\* writes no marker; after a finished run the document holds as many markers
\* as files had no conversation record.
C8_MarkerPerEmptyFile ==
  /\ \A k \in 1..Len(calls) :
       IF calls[k].conversations = << >>
       THEN /\ KindCount(calls[k].lines, "marker") = 1
            /\ \A kind \in {"conversations", "key", "message", "separator"} :
                 KindCount(calls[k].lines, kind) = 0
       ELSE KindCount(calls[k].lines, "marker") = 0
  /\ (pc = "done" /\ calls # << >>) =>
       KindCount(doc, "marker")
         = Cardinality({ k \in 1..Len(calls) : calls[k].conversations = << >> })

\* A finished run over one file without and one file with a conversation.
C8_Witness ==
  /\ pc = "done" /\ Len(calls) = 2
  /\ \E k \in 1..2 : calls[k].conversations = << >>
  /\ \E k \in 1..2 : calls[k].conversations # << >>

\* C9: at most one database connection is open at any time.
C9_OneOpenConnection == Cardinality(openConns) <= 1

\* C10: the output directory is created only once the Locator has produced a
\* non-empty list; a run that ends for lack of database files has not created it.
C10_OutputDirAfterLocator ==
  (pc = "done" /\ rootExists /\ db_files = << >>) => outputDir # "created"

====
